---- MODULE Spec2Model ----
(***************************************************************************)
(* A model of CBZ-manager.py: filename metadata extraction, grouping and   *)
(* sorting, staging of the source archives in a temporary directory, the   *)
(* optional combining of the staged volumes, and the building of the       *)
(* renumbered output archives.                                             *)
(*                                                                         *)
(* Strings are TLA+ strings; a character is a string of length one.        *)
(***************************************************************************)
EXTENDS Integers, Sequences, FiniteSets, TLC

VARIABLES
    pc,          \* position of main()
    files,       \* the result of glob("*.cbz"): a list of file names
    archive,     \* file name -> the set of entry names of that source archive
    manual,      \* args.title (NoTitle when absent)
    all,         \* args.all
    organized,   \* the dict process_files returns, in insertion order
    todo,        \* the (key, file) pairs extract_cbz_to_temp still has to extract
    nextract,    \* the number of source archives extracted so far
    extracted,   \* the dict extract_cbz_to_temp builds, in insertion order
    tempExists,  \* the TemporaryDirectory exists on disk
    tempMade,    \* a TemporaryDirectory was created at some point of the run
    tree,        \* the files below the temporary directory
    outDirMade,  \* out_dir.mkdir was called
    outputs,     \* the archives in the output directory, in order of writing
    nbuilt,      \* the number of per-volume archives create_cbz_from_dir finished
    diag,        \* the diagnostic main printed
    err,         \* the stage that raised ("" when none)
    parts,       \* the pieces of extract_info's filename (metadata specification)
    mtitle,      \* extract_info's manual_title argument (metadata specification)
    info         \* extract_info's result (metadata specification)

vars == <<pc, files, archive, manual, all, organized, todo, nextract, extracted,
          tempExists, tempMade, tree, outDirMade, outputs, nbuilt, diag, err,
          parts, mtitle, info>>

mainVars == <<pc, files, archive, manual, all, organized, todo, nextract, extracted,
              tempExists, tempMade, tree, outDirMade, outputs, nbuilt, diag, err>>

infoVars == <<parts, mtitle, info>>

\* Optional[str]: None is the empty set, a string s is {s}
NoTitle == {}

\* No result yet
NoInfo == <<>>

(***************************************************************************)
(* Characters and strings                                                  *)
(***************************************************************************)

\* The characters of the model's file names, in code point order.
Alphabet == " .0123456789ABCDEFGHIJKLMNOPQRSTUVWXYZ_abcdefghijklmnopqrstuvwxyz"

Char(s, i) == SubSeq(s, i, i)

Range(f) == {f[i] : i \in DOMAIN f}

\* The code point order of the characters, as a table
OrdTable == [i \in 1..Len(Alphabet) |-> Char(Alphabet, i)]

OrdMap == [c \in Range(OrdTable) |-> CHOOSE i \in 1..Len(Alphabet) : OrdTable[i] = c] @@ <<>>

Ord(c) == OrdMap[c]

IsDigit(c) == c \in {"0", "1", "2", "3", "4", "5", "6", "7", "8", "9"}

\* \s of the regular expressions, and the characters str.strip() removes
Whitespace == {" ", "\t", "\n", "\r", "\f"}

IsSpace(c) == c \in Whitespace

\* re.IGNORECASE: letters are compared in lower case
LowerMap ==
    [c \in Range(OrdTable) |->
        IF OrdMap["A"] <= OrdMap[c] /\ OrdMap[c] <= OrdMap["Z"]
        THEN OrdTable[OrdMap[c] - OrdMap["A"] + OrdMap["a"]] ELSE c] @@ <<>>

Lower(c) == LowerMap[c]

\* Python's order of str: by code point, a proper prefix first
RECURSIVE StrLess(_, _)
StrLess(a, b) ==
    IF Len(b) = 0 THEN FALSE
    ELSE IF Len(a) = 0 THEN TRUE
    ELSE IF Head(a) = Head(b) THEN StrLess(Tail(a), Tail(b))
    ELSE Ord(Head(a)) < Ord(Head(b))

DigitChar(d) == Char("0123456789", d + 1)

DigitVal(c) == Ord(c) - Ord("0")

\* str(n) of a non-negative integer
RECURSIVE Decimal(_)
Decimal(n) == IF n < 10 THEN DigitChar(n) ELSE Decimal(n \div 10) \o DigitChar(n % 10)

\* f"{n:0{w}d}": zero-padded to at least w digits
RECURSIVE Pad(_, _)
Pad(s, w) == IF Len(s) >= w THEN s ELSE Pad("0" \o s, w)

\* int(s) of a digit run
RECURSIVE ToInt(_)
ToInt(s) ==
    IF Len(s) = 0 THEN 0
    ELSE 10 * ToInt(SubSeq(s, 1, Len(s) - 1)) + DigitVal(Char(s, Len(s)))

\* The index of the last "." of s, 0 when there is none (str.rfind + 1)
RECURSIVE RFindDot(_, _)
RFindDot(s, i) ==
    IF i = 0 THEN 0 ELSE IF Char(s, i) = "." THEN i ELSE RFindDot(s, i - 1)

\* PurePath.suffix: from the last dot, unless the dot is first or last
Suffix(name) ==
    LET i == RFindDot(name, Len(name))
    IN  IF 1 < i /\ i < Len(name) THEN SubSeq(name, i, Len(name)) ELSE ""

\* PurePath.stem
Stem(name) ==
    LET i == RFindDot(name, Len(name))
    IN  IF 1 < i /\ i < Len(name) THEN SubSeq(name, 1, i - 1) ELSE name

(***************************************************************************)
(* extract_info                                                            *)
(***************************************************************************)

\* s continues at index i with the literal lit, letter case ignored
RECURSIVE MatchLit(_, _, _)
MatchLit(s, i, lit) ==
    IF Len(lit) = 0 THEN TRUE
    ELSE /\ i <= Len(s)
         /\ Lower(Char(s, i)) = Head(lit)
         /\ MatchLit(s, i + 1, Tail(lit))

\* \.? : the index after an optional dot at i
SkipDot(s, i) == IF i <= Len(s) /\ Char(s, i) = "." THEN i + 1 ELSE i

\* \s* : the index after the whitespace run at i
RECURSIVE SkipSpaces(_, _)
SkipSpaces(s, i) ==
    IF i <= Len(s) /\ IsSpace(Char(s, i)) THEN SkipSpaces(s, i + 1) ELSE i

\* \d+ : the index after the digit run at i (i itself when there is none)
RECURSIVE DigitsEnd(_, _)
DigitsEnd(s, i) ==
    IF i <= Len(s) /\ IsDigit(Char(s, i)) THEN DigitsEnd(s, i + 1) ELSE i

\* <token>\.?\s*(\d+) at index i: the digit run's bounds, or no match
TokenAt(s, i, token) ==
    IF ~MatchLit(s, i, token) THEN [ok |-> FALSE]
    ELSE LET j == SkipSpaces(s, SkipDot(s, i + Len(token)))
             k == DigitsEnd(s, j)
         IN  IF k > j THEN [ok |-> TRUE, from |-> j, to |-> k - 1]
             ELSE [ok |-> FALSE]

\* The first of the alternatives, in the order the pattern tries them, that
\* matches at index i
RECURSIVE FirstTokenAt(_, _, _)
FirstTokenAt(s, i, tokens) ==
    IF Len(tokens) = 0 THEN [ok |-> FALSE]
    ELSE LET m == TokenAt(s, i, Head(tokens))
         IN  IF m.ok THEN m ELSE FirstTokenAt(s, i, Tail(tokens))

\* (?:vol(?:ume)?\.?\s*|v\.?\s*)(\d+)
VolumeTokens == <<"volume", "vol", "v">>

\* (?:ch(?:apter)?\.?\s*)(\d+)
ChapterTokens == <<"chapter", "ch">>

\* re.search: the leftmost match, from index i on
RECURSIVE Search(_, _, _)
Search(s, i, tokens) ==
    IF i > Len(s) THEN [ok |-> FALSE]
    ELSE LET m == FirstTokenAt(s, i, tokens)
         IN  IF m.ok THEN [ok |-> TRUE, at |-> i, from |-> m.from, to |-> m.to]
             ELSE Search(s, i + 1, tokens)

\* re.split(volume pattern | chapter pattern, base)[0]: what precedes the
\* leftmost match of either pattern
TitlePart(base) ==
    LET m == Search(base, 1, VolumeTokens \o ChapterTokens)
    IN  IF m.ok THEN SubSeq(base, 1, m.at - 1) ELSE base

RECURSIVE LStrip(_, _)
LStrip(s, chars) ==
    IF Len(s) > 0 /\ Head(s) \in chars THEN LStrip(Tail(s), chars) ELSE s

RECURSIVE RStrip(_, _)
RStrip(s, chars) ==
    IF Len(s) > 0 /\ Char(s, Len(s)) \in chars
    THEN RStrip(SubSeq(s, 1, Len(s) - 1), chars) ELSE s

\* str.strip(chars)
Strip(s, chars) == RStrip(LStrip(s, chars), chars)

\* str.replace(old, new) for one-character strings
RECURSIVE Replace(_, _, _)
Replace(s, old, new) ==
    IF Len(s) = 0 THEN ""
    ELSE (IF Head(s) = old THEN new ELSE Head(s)) \o Replace(Tail(s), old, new)

DefaultVolume == 1

DefaultChapter == 1

\* extract_info(filename, manual_title) = <<title, chapter, volume>>
extract_info(filename, manual_title) ==
    LET base == Stem(filename)
        volume_match == Search(base, 1, VolumeTokens)
        volume == IF volume_match.ok
                  THEN ToInt(SubSeq(base, volume_match.from, volume_match.to))
                  ELSE DefaultVolume
        chapter_match == Search(base, 1, ChapterTokens)
        chapter == IF chapter_match.ok
                   THEN ToInt(SubSeq(base, chapter_match.from, chapter_match.to))
                   ELSE DefaultChapter
        title == IF manual_title # NoTitle THEN CHOOSE t \in manual_title : TRUE
                 ELSE Strip(Replace(Replace(Strip(TitlePart(base), {"_", " "}),
                                            "_", " "), ".", " "),
                            Whitespace)
    IN  <<title, chapter, volume>>

(***************************************************************************)
(* sort_files, process_files                                               *)
(***************************************************************************)

\* Python's order of tuples (str, int, int)
KeyLess(a, b) ==
    \/ StrLess(a[1], b[1])
    \/ /\ a[1] = b[1]
       /\ \/ a[2] < b[2]
          \/ a[2] = b[2] /\ a[3] < b[3]

\* x put into an ascending list after every item whose key is not greater
RECURSIVE InsertSorted(_, _)
InsertSorted(sorted, x) ==
    IF sorted = <<>> THEN <<x>>
    ELSE IF KeyLess(x.key, Head(sorted).key) THEN <<x>> \o sorted
    ELSE <<Head(sorted)>> \o InsertSorted(Tail(sorted), x)

\* sorted(items, key=...): ascending by .key, stable
RECURSIVE Sorted(_)
Sorted(items) ==
    IF items = <<>> THEN <<>>
    ELSE InsertSorted(Sorted(SubSeq(items, 1, Len(items) - 1)), items[Len(items)])

\* The key sort_files sorts by: extract_info's tuple as it is
SortKey(file, manual_title) == extract_info(file, manual_title)

\* The files with their sort keys
RECURSIVE Keyed(_, _)
Keyed(fs, manual_title) ==
    IF fs = <<>> THEN <<>>
    ELSE <<[key |-> SortKey(Head(fs), manual_title), val |-> Head(fs)]>>
         \o Keyed(Tail(fs), manual_title)

RECURSIVE Values(_)
Values(items) == IF items = <<>> THEN <<>> ELSE <<Head(items).val>> \o Values(Tail(items))

sort_files(fs, manual_title) == Values(Sorted(Keyed(fs, manual_title)))

\* A dict is the list of its items [key, val] in insertion order
DictHas(d, k) == \E i \in 1..Len(d) : d[i].key = k

DictGet(d, k, default) ==
    IF DictHas(d, k) THEN d[CHOOSE i \in 1..Len(d) : d[i].key = k].val ELSE default

\* d[k] = v: a new key goes last, a known key keeps its place
DictPut(d, k, v) ==
    IF DictHas(d, k)
    THEN [d EXCEPT ![CHOOSE i \in 1..Len(d) : d[i].key = k] = [key |-> k, val |-> v]]
    ELSE Append(d, [key |-> k, val |-> v])

RECURSIVE Organize(_, _, _)
Organize(sorted_files, manual_title, organized_) ==
    IF sorted_files = <<>> THEN organized_
    ELSE LET file == Head(sorted_files)
             inf == extract_info(file, manual_title)
         IN  Organize(Tail(sorted_files), manual_title,
                      DictPut(organized_, inf,
                              DictGet(organized_, inf, <<>>) \o <<file>>))

process_files(fs, manual_title) ==
    Organize(sort_files(fs, manual_title), manual_title, <<>>)

(***************************************************************************)
(* extract_cbz_to_temp                                                     *)
(***************************************************************************)

ChapterWidth == 3

PageWidth == 4

VolDirName(title, vol) == title \o "_Volume_" \o Decimal(vol)

ChapterDirName(chapter) == "Chapter_" \o Pad(Decimal(chapter), ChapterWidth)

\* The items of cbz_files with the key (title, volume, chapter)
RECURSIVE KeyedItems(_)
KeyedItems(items) ==
    IF items = <<>> THEN <<>>
    ELSE <<[key |-> <<Head(items).key[1], Head(items).key[3], Head(items).key[2]>>,
            val |-> Head(items)]>> \o KeyedItems(Tail(items))

\* sorted(cbz_files.items(), key=lambda x: (x[0][0], x[0][2], x[0][1]))
SortedItems(cbz_files) == Values(Sorted(KeyedItems(cbz_files)))

\* The inner loop of extract_cbz_to_temp for one item, as the list of its steps
RECURSIVE ItemPlan(_, _)
ItemPlan(key, cbzs) ==
    IF cbzs = <<>> THEN <<>>
    ELSE <<[title |-> key[1], chapter |-> key[2], vol |-> key[3],
            cbz |-> Head(cbzs), last |-> Len(cbzs) = 1]>> \o ItemPlan(key, Tail(cbzs))

\* The two nested loops of extract_cbz_to_temp, as the list of their steps
RECURSIVE ExtractPlan(_)
ExtractPlan(items) ==
    IF items = <<>> THEN <<>>
    ELSE ItemPlan(Head(items).key, Head(items).val) \o ExtractPlan(Tail(items))

\* zip_ref.extractall(chapter_dir): every entry, under its own name; a file
\* already at that path is replaced
ExtractAll(t, step, entries) ==
    {e \in t : ~\E n \in entries :
                  e.path = <<VolDirName(step.title, step.vol),
                             ChapterDirName(step.chapter), n>>}
    \cup {[path |-> <<VolDirName(step.title, step.vol),
                      ChapterDirName(step.chapter), n>>,
           content |-> <<step.cbz, n>>] : n \in entries}

(***************************************************************************)
(* combine_volumes                                                         *)
(***************************************************************************)

CombinedDirName == "ALL_COMBINED"

\* for item in vol_path.iterdir(): copytree(item, combined_dir / item.name,
\* dirs_exist_ok=True): every file of the volume directory is written at its
\* chapter directory and name below the combined directory
CopyVolume(t, vol_dir) ==
    {e \in t : ~\E x \in t :
                  /\ x.path[1] = vol_dir
                  /\ e.path = <<CombinedDirName, x.path[2], x.path[3]>>}
    \cup {[path |-> <<CombinedDirName, x.path[2], x.path[3]>>, content |-> x.content] :
             x \in {y \in t : y.path[1] = vol_dir}}

RECURSIVE combine_volumes(_, _)
combine_volumes(t, extracted_) ==
    IF extracted_ = <<>> THEN t
    ELSE combine_volumes(CopyVolume(t, Head(extracted_).val), Tail(extracted_))

(***************************************************************************)
(* create_cbz_from_dir                                                     *)
(***************************************************************************)

\* The order of Path objects below one directory: by their parts
PathLess(p, q) ==
    \/ StrLess(p[2], q[2])
    \/ p[2] = q[2] /\ StrLess(p[3], q[3])

\* sorted(input_dir.rglob("*")), the files only
RECURSIVE SortedFiles(_)
SortedFiles(fset) ==
    IF fset = {} THEN <<>>
    ELSE LET m == CHOOSE x \in fset : \A y \in fset \ {x} : PathLess(x.path, y.path)
         IN  <<m>> \o SortedFiles(fset \ {m})

\* The name of the idx-th page: f"{idx:04d}{ext}"
PageName(idx, file) == Pad(Decimal(idx), PageWidth) \o Suffix(file.path[3])

\* for idx, file in enumerate(files, 1): zipf.write(file, f"{idx:04d}{ext}")
RECURSIVE Pages(_, _)
Pages(fs, idx) ==
    IF fs = <<>> THEN <<>>
    ELSE <<[name |-> PageName(idx, Head(fs)), content |-> Head(fs).content]>>
         \o Pages(Tail(fs), idx + 1)

\* The entries create_cbz_from_dir writes for input_dir, in order
ArchiveEntries(t, input_dir) == Pages(SortedFiles({e \in t : e.path[1] = input_dir}), 1)

\* ZipFile(output_path, "w"): an archive of that name is replaced
WriteArchive(outs, name, entries, complete) ==
    LET kept == {i \in 1..Len(outs) : outs[i].name # name}
        RECURSIVE Keep(_)
        Keep(i) == IF i > Len(outs) THEN <<>>
                   ELSE (IF i \in kept THEN <<outs[i]>> ELSE <<>>) \o Keep(i + 1)
    IN  Append(Keep(1), [name |-> name, entries |-> entries, complete |-> complete])

(***************************************************************************)
(* main                                                                    *)
(***************************************************************************)

\* The largest number of *.cbz files in the input directory
MaxFiles == 3

\* The file names the input directory may hold
FileNames == {"T_Ch1_v1.cbz", "T Ch1 v1.cbz", "T_Ch1_v2.cbz", "T_Ch999_v1.cbz",
              "T_Ch1000_v1.cbz", "S_Vol2.cbz"}

\* The entry names a source archive may hold
EntrySets == {{"a.jpg"}, {"a.jpg", "b.png"}}

\* The values of --title
ManualTitles == {NoTitle, {"M"}}

\* What glob may return: the directory's files in any order
FileLists ==
    UNION {{s \in [1..n -> FileNames] : \A i, j \in 1..n : i # j => s[i] # s[j]} :
           n \in 0..MaxFiles}

NoParts == [title |-> "", sep |-> "", token |-> "", num |-> ""]

Init ==
    /\ pc = "start"
    /\ files \in FileLists
    /\ archive \in [Range(files) -> EntrySets]
    /\ manual \in ManualTitles
    /\ all \in BOOLEAN
    /\ organized = <<>>
    /\ todo = <<>>
    /\ nextract = 0
    /\ extracted = <<>>
    /\ tempExists = FALSE
    /\ tempMade = FALSE
    /\ tree = {}
    /\ outDirMade = FALSE
    /\ outputs = <<>>
    /\ nbuilt = 0
    /\ diag = ""
    /\ err = ""
    /\ parts = NoParts
    /\ mtitle = NoTitle
    /\ info = NoInfo

\* The check for an empty input left out
HasFilesAlways(fs) == TRUE

\* if not files
HasFiles(fs) == fs # <<>>

\* "[ERROR] Stopping. No CBZ files found." and return
NoFiles ==
    /\ pc = "start"
    /\ ~HasFiles(files)
    /\ diag' = "No CBZ files found"
    /\ pc' = "done"
    /\ UNCHANGED <<files, archive, manual, all, organized, todo, nextract, extracted,
                   tempExists, tempMade, tree, outDirMade, outputs, nbuilt, err>>
    /\ UNCHANGED infoVars

\* organized = process_files(...)
Group ==
    /\ pc = "start"
    /\ HasFiles(files)
    /\ organized' = process_files(files, manual)
    /\ pc' = "temp"
    /\ UNCHANGED <<files, archive, manual, all, todo, nextract, extracted, tempExists,
                   tempMade, tree, outDirMade, outputs, nbuilt, diag, err>>
    /\ UNCHANGED infoVars

\* The output directory made while one source archive is still to extract
AfterExtractEarly(rest) == IF Len(rest) <= 1 THEN "mkdir" ELSE "extract"

\* Where main goes when the steps rest of extract_cbz_to_temp remain
AfterExtract(rest) == IF rest = <<>> THEN "mkdir" ELSE "extract"

\* with TemporaryDirectory() as temp_dir, and the start of extract_cbz_to_temp
EnterTemp ==
    /\ pc = "temp"
    /\ tempExists' = TRUE
    /\ tempMade' = TRUE
    /\ todo' = ExtractPlan(SortedItems(organized))
    /\ pc' = AfterExtract(todo')
    /\ UNCHANGED <<files, archive, manual, all, organized, nextract, extracted, tree,
                   outDirMade, outputs, nbuilt, diag, err>>
    /\ UNCHANGED infoVars

\* One turn of the inner loop of extract_cbz_to_temp: one source archive
ExtractOne ==
    /\ pc = "extract"
    /\ todo # <<>>
    /\ LET step == Head(todo)
       IN  /\ tree' = ExtractAll(tree, step, archive[step.cbz])
           /\ extracted' = IF step.last
                            THEN DictPut(extracted, <<step.title, step.vol>>,
                                         VolDirName(step.title, step.vol))
                            ELSE extracted
    /\ nextract' = nextract + 1
    /\ todo' = Tail(todo)
    /\ pc' = AfterExtract(todo')
    /\ UNCHANGED <<files, archive, manual, all, organized, tempExists, tempMade,
                   outDirMade, outputs, nbuilt, diag, err>>
    /\ UNCHANGED infoVars

\* ZipFile(cbz, "r") or extractall raises
ExtractFail ==
    /\ pc = "extract"
    /\ todo # <<>>
    /\ err' = "extract"
    /\ pc' = "exit"
    /\ UNCHANGED <<files, archive, manual, all, organized, todo, nextract, extracted,
                   tempExists, tempMade, tree, outDirMade, outputs, nbuilt, diag>>
    /\ UNCHANGED infoVars

\* Where main goes when built of the volumes of extracted_ are written
AfterBuild(built, extracted_) == IF built >= Len(extracted_) THEN "exit" ELSE "build"

\* out_dir.mkdir(parents=True, exist_ok=True)
MkOutDir ==
    /\ pc = "mkdir"
    /\ outDirMade' = TRUE
    /\ pc' = IF all THEN "combine" ELSE AfterBuild(nbuilt, extracted)
    /\ UNCHANGED <<files, archive, manual, all, organized, todo, nextract, extracted,
                   tempExists, tempMade, tree, outputs, nbuilt, diag, err>>
    /\ UNCHANGED infoVars

MkOutDirFail ==
    /\ pc = "mkdir"
    /\ err' = "mkdir"
    /\ pc' = "exit"
    /\ UNCHANGED <<files, archive, manual, all, organized, todo, nextract, extracted,
                   tempExists, tempMade, tree, outDirMade, outputs, nbuilt, diag>>
    /\ UNCHANGED infoVars

\* combined_dir = combine_volumes(extracted, temp_dir)
Combine ==
    /\ pc = "combine"
    /\ tree' = combine_volumes(tree, extracted)
    /\ pc' = "buildall"
    /\ UNCHANGED <<files, archive, manual, all, organized, todo, nextract, extracted,
                   tempExists, tempMade, outDirMade, outputs, nbuilt, diag, err>>
    /\ UNCHANGED infoVars

CombineFail ==
    /\ pc = "combine"
    /\ err' = "combine"
    /\ pc' = "exit"
    /\ UNCHANGED <<files, archive, manual, all, organized, todo, nextract, extracted,
                   tempExists, tempMade, tree, outDirMade, outputs, nbuilt, diag>>
    /\ UNCHANGED infoVars

\* str.split("_")[0]
RECURSIVE BeforeUnderscore(_)
BeforeUnderscore(s) ==
    IF Len(s) = 0 \/ Head(s) = "_" THEN "" ELSE Head(s) \o BeforeUnderscore(Tail(s))

\* The name of the combined archive
CombinedName(organized_, fs) ==
    IF organized_ # <<>> THEN organized_[1].key[1] \o ".cbz"
    ELSE IF fs # <<>> THEN BeforeUnderscore(Stem(fs[1])) \o "_Combined.cbz"
    ELSE "Combined.cbz"

\* create_cbz_from_dir(out_dir / out_name, combined_dir)
BuildAll ==
    /\ pc = "buildall"
    /\ outputs' = WriteArchive(outputs, CombinedName(organized, files),
                               ArchiveEntries(tree, CombinedDirName), TRUE)
    /\ pc' = "exit"
    /\ UNCHANGED <<files, archive, manual, all, organized, todo, nextract, extracted,
                   tempExists, tempMade, tree, outDirMade, nbuilt, diag, err>>
    /\ UNCHANGED infoVars

\* zipf.write raises after n entries: the archive is left with those
BuildAllFail ==
    /\ pc = "buildall"
    /\ LET entries == ArchiveEntries(tree, CombinedDirName)
       IN  \E n \in 0..(Len(entries) - 1) :
             outputs' = WriteArchive(outputs, CombinedName(organized, files),
                                     SubSeq(entries, 1, n), FALSE)
    /\ err' = "build"
    /\ pc' = "exit"
    /\ UNCHANGED <<files, archive, manual, all, organized, todo, nextract, extracted,
                   tempExists, tempMade, tree, outDirMade, nbuilt, diag>>
    /\ UNCHANGED infoVars

\* The name of a volume's archive
VolumeName(key) == key[1] \o "_Volume_" \o Decimal(key[2]) \o ".cbz"

\* One turn of the loop over extracted.items(): create_cbz_from_dir
BuildOne ==
    /\ pc = "build"
    /\ nbuilt < Len(extracted)
    /\ LET item == extracted[nbuilt + 1]
       IN  outputs' = WriteArchive(outputs, VolumeName(item.key),
                                   ArchiveEntries(tree, item.val), TRUE)
    /\ nbuilt' = nbuilt + 1
    /\ pc' = AfterBuild(nbuilt', extracted)
    /\ UNCHANGED <<files, archive, manual, all, organized, todo, nextract, extracted,
                   tempExists, tempMade, tree, outDirMade, diag, err>>
    /\ UNCHANGED infoVars

BuildOneFail ==
    /\ pc = "build"
    /\ nbuilt < Len(extracted)
    /\ LET item == extracted[nbuilt + 1]
           entries == ArchiveEntries(tree, item.val)
       IN  \E n \in 0..(Len(entries) - 1) :
             outputs' = WriteArchive(outputs, VolumeName(item.key),
                                     SubSeq(entries, 1, n), FALSE)
    /\ err' = "build"
    /\ pc' = "exit"
    /\ UNCHANGED <<files, archive, manual, all, organized, todo, nextract, extracted,
                   tempExists, tempMade, tree, outDirMade, nbuilt, diag>>
    /\ UNCHANGED infoVars

\* A cleanup call at the end of the block instead of a context manager
TempAfterExitOnSuccessOnly(error) == error # ""

\* TemporaryDirectory.__exit__: whether the directory is still there after
\* the with block is left, normally or by the exception of stage error
TempAfterExit(error) == FALSE

\* The end of the with block
ExitTemp ==
    /\ pc = "exit"
    /\ tempExists' = TempAfterExit(err)
    /\ tree' = IF tempExists' THEN tree ELSE {}
    /\ pc' = IF err = "" THEN "done" ELSE "failed"
    /\ UNCHANGED <<files, archive, manual, all, organized, todo, nextract, extracted,
                   tempMade, outDirMade, outputs, nbuilt, diag, err>>
    /\ UNCHANGED infoVars

Next ==
    \/ NoFiles
    \/ Group
    \/ EnterTemp
    \/ ExtractOne
    \/ ExtractFail
    \/ MkOutDir
    \/ MkOutDirFail
    \/ Combine
    \/ CombineFail
    \/ BuildAll
    \/ BuildAllFail
    \/ BuildOne
    \/ BuildOneFail
    \/ ExitTemp

Spec == Init /\ [][Next]_vars

(***************************************************************************)
(* The metadata specification: extract_info on file names                  *)
(* <title><sep><token><digits>.cbz                                         *)
(***************************************************************************)

InfoTitles == {"T", "One Piece", "Dr.Stone", "a_b", "Rev2", "Arch5", "A__B", "X  Y", "_T"}

InfoSeps == {"_", ".", " ", "__", "_.", ". "}

InfoTokens == {"Vol", "vol", "VOL", "vOl", "Volume", "volume", "VOLUME"}

InfoNumbers == {"1", "03", "12", "1000"}

InfoFileName(p) == p.title \o p.sep \o p.token \o p.num \o ".cbz"

InitInfo ==
    /\ pc = "info"
    /\ files = <<>>
    /\ archive = <<>>
    /\ manual = NoTitle
    /\ all = FALSE
    /\ organized = <<>>
    /\ todo = <<>>
    /\ nextract = 0
    /\ extracted = <<>>
    /\ tempExists = FALSE
    /\ tempMade = FALSE
    /\ tree = {}
    /\ outDirMade = FALSE
    /\ outputs = <<>>
    /\ nbuilt = 0
    /\ diag = ""
    /\ err = ""
    /\ parts \in [title : InfoTitles, sep : InfoSeps, token : InfoTokens, num : InfoNumbers]
    /\ mtitle \in ManualTitles
    /\ info = NoInfo

\* info = extract_info(filename, manual_title)
Parse ==
    /\ pc = "info"
    /\ info = NoInfo
    /\ info' = extract_info(InfoFileName(parts), mtitle)
    /\ UNCHANGED <<parts, mtitle>>
    /\ UNCHANGED mainVars

NextInfo == Parse

SpecInfo == InitInfo /\ [][NextInfo]_vars

(***************************************************************************)
(* Properties                                                              *)
(***************************************************************************)

\* The VolumeGroup (title, volume) of a source file
GroupOf(f) == LET i == extract_info(f, manual) IN <<i[1], i[3]>>

ChapterOf(f) == extract_info(f, manual)[2]

Groups == {GroupOf(f) : f \in Range(files)}

GroupFiles(g) == {f \in Range(files) : GroupOf(f) = g}

\* The number of entries of the source archives fs together
RECURSIVE EntryCount(_)
EntryCount(fs) ==
    IF fs = {} THEN 0
    ELSE LET f == CHOOSE x \in fs : TRUE
         IN  Cardinality(archive[f]) + EntryCount(fs \ {f})

\* The input file list in every order
Orderings(fs) ==
    {p \in [1..Len(fs) -> Range(fs)] : \A i, j \in 1..Len(fs) : i # j => p[i] # p[j]}

\* The archive entries are 0001.<ext> .. K.<ext> for K = count, each source
\* entry of fs is the content of one of them
IsRoundTrip(out, fs) ==
    /\ Len(out.entries) = EntryCount(fs)
    /\ \A i \in 1..Len(out.entries) :
         Stem(out.entries[i].name) = Pad(Decimal(i), PageWidth)
    /\ \A i, j \in 1..Len(out.entries) :
         i # j => out.entries[i].name # out.entries[j].name
    /\ \A f \in fs : \A n \in archive[f] :
         \E i \in 1..Len(out.entries) :
            /\ out.entries[i].content = <<f, n>>
            /\ Suffix(out.entries[i].name) = Suffix(n)

\* C1: per-volume round trip. After a run without --all every VolumeGroup has
\* an output archive with exactly as many entries as its source archives hold
\* together, named 0001.<ext> to K.<ext>, pairwise distinct, none lost.
RoundTripPerVolume ==
    (pc = "done" /\ ~all /\ files # <<>>) =>
        \A g \in Groups :
            \E k \in 1..Len(outputs) :
                /\ outputs[k].name = VolumeName(g)
                /\ IsRoundTrip(outputs[k], GroupFiles(g))

\* C2: combined mode entry count. After a run with --all the single output
\* archive has as many entries as all source archives hold together.
CombinedEntryCount ==
    (pc = "done" /\ all /\ files # <<>>) =>
        /\ Len(outputs) = 1
        /\ Len(outputs[1].entries) = EntryCount(Range(files))

\* An upper bound of the steps main has left inside the with block
StepsLeft ==
    CASE pc = "extract" -> Len(todo) + Len(files) + 4
      [] pc = "mkdir" -> Len(extracted) + 4
      [] pc = "combine" -> 3
      [] pc = "buildall" -> 2
      [] pc = "build" -> Len(extracted) - nbuilt + 1
      [] pc = "exit" -> 1
      [] OTHER -> 0

\* C3: staging cleanup on every exit path. No run has ended, in DONE or in
\* FAILED, with the temporary directory still there; and once the directory
\* exists it is removed in the end: it exists only inside the with block,
\* where main always has a step to take, and each step there either removes
\* it or leaves fewer steps to take.
StagingAlwaysRemoved ==
    /\ [](pc \in {"done", "failed"} => ~tempExists)
    /\ [](tempExists =>
            /\ pc \in {"extract", "mkdir", "combine", "buildall", "build", "exit"}
            /\ pc = "extract" => todo # <<>>
            /\ pc = "build" => nbuilt < Len(extracted))
    /\ [][tempExists => (~tempExists' \/ StepsLeft' < StepsLeft)]_vars

\* A run that failed after the temporary directory was created, the directory gone
StagingRemovedAfterError ==
    pc = "failed" /\ tempMade /\ ~tempExists /\ err \in {"extract", "mkdir", "combine", "build"}

ChapterOrderInVolume ==
    (pc = "done" /\ ~all) =>
        \A k \in 1..Len(outputs) :
            \A i, j \in 1..Len(outputs[k].entries) :
                LET a == outputs[k].entries[i]
                    b == outputs[k].entries[j]
                IN  ChapterOf(a.content[1]) < ChapterOf(b.content[1])
                        => ToInt(Stem(a.name)) < ToInt(Stem(b.name))

\* The files of a dict's items, in order
RECURSIVE Flatten(_)
Flatten(d) == IF d = <<>> THEN <<>> ELSE Head(d).val \o Flatten(Tail(d))

\* The key (title, volume, chapter) of a file
TitleVolumeChapter(f) ==
    LET i == extract_info(f, manual) IN <<i[1], i[3], i[2]>>

AscendingByTitleVolumeChapter(fs) ==
    \A i, j \in 1..Len(fs) :
        i < j => ~KeyLess(TitleVolumeChapter(fs[j]), TitleVolumeChapter(fs[i]))

\* C6: sort precedence of the grouper. The order sort_files and process_files
\* give the files is ascending by (title, volume, chapter).
SortByTitleVolumeChapter ==
    (pc = "temp") =>
        /\ AscendingByTitleVolumeChapter(sort_files(files, manual))
        /\ AscendingByTitleVolumeChapter(Flatten(organized))

\* Runs of whitespace made one space
RECURSIVE Collapse(_)
Collapse(s) ==
    IF Len(s) < 2 THEN s
    ELSE IF IsSpace(Head(s)) /\ IsSpace(Head(Tail(s))) THEN Collapse(Tail(s))
    ELSE Head(s) \o Collapse(Tail(s))

\* A title as the data model normalizes it: "_" and "." made spaces, runs of
\* whitespace made one space, no separator at either end
Normalized(t) == Strip(Collapse(Replace(Replace(t, "_", " "), ".", " ")), Whitespace)

\* C7: volume-token extraction. For <Title><sep>Vol<N> or <Title><sep>Volume<N>
\* and no manual title, extract_info returns the normalized Title, the
\* default chapter 1 and the volume N.
VolumeTokenExtraction ==
    (info # NoInfo /\ mtitle = NoTitle) =>
        info = <<Normalized(parts.title), 1, ToInt(parts.num)>>

\* C8: empty-input early exit. With no *.cbz file main prints a diagnostic
\* and returns without raising; no output archive, no output directory and
\* no temporary directory is made.
EmptyInputEarlyExit ==
    (pc # "info" /\ files = <<>>) =>
        /\ pc \in {"start", "done"}
        /\ pc = "done" => diag = "No CBZ files found"
        /\ err = ""
        /\ outputs = <<>>
        /\ ~outDirMade
        /\ ~tempMade
        /\ ~tempExists

\* main has returned on an empty input directory
EmptyInputReturned == files = <<>> /\ pc = "done" /\ diag # ""

\* extract_cbz_to_temp as one function of the dict: the staged tree
RECURSIVE StageAll(_, _)
StageAll(t, plan) ==
    IF plan = <<>> THEN t
    ELSE StageAll(ExtractAll(t, Head(plan), archive[Head(plan).cbz]), Tail(plan))

\* extract_cbz_to_temp as one function of the dict: the dict it returns
RECURSIVE ExtractedOf(_, _)
ExtractedOf(d, plan) ==
    IF plan = <<>> THEN d
    ELSE ExtractedOf(IF Head(plan).last
                     THEN DictPut(d, <<Head(plan).title, Head(plan).vol>>,
                                  VolDirName(Head(plan).title, Head(plan).vol))
                     ELSE d, Tail(plan))

CombinedPart(t) == {e \in t : e.path[1] = CombinedDirName}

\* The merged tree main builds from the input file list fs
CombinedOf(fs) ==
    LET plan == ExtractPlan(SortedItems(process_files(fs, manual)))
    IN  CombinedPart(combine_volumes(StageAll({}, plan), ExtractedOf(<<>>, plan)))

\* Ascending (title, volume) order of the VolumeGroups
GroupLess(g, h) == StrLess(g[1], h[1]) \/ (g[1] = h[1] /\ g[2] < h[2])

\* The VolumeGroups that staged a file at chapter directory c, name n
Holders(c, n) ==
    {g \in Groups : \E e \in tree : e.path = <<VolDirName(g[1], g[2]), c, n>>}

\* C9: combiner collision rule. A path of the merged tree holds the content
\* of the last VolumeGroup, in ascending (title, volume) order, that staged
\* it; every staged path is in the merged tree; and the merged tree is the
\* same for every order of the input file list.
CombinerCollisionRule ==
    (pc = "buildall") =>
        /\ \A e \in CombinedPart(tree) :
             LET hs == Holders(e.path[2], e.path[3])
                 g == CHOOSE x \in hs : \A y \in hs \ {x} : GroupLess(y, x)
             IN  /\ hs # {}
                 /\ [path |-> <<VolDirName(g[1], g[2]), e.path[2], e.path[3]>>,
                     content |-> e.content] \in tree
        /\ \A e \in tree : \E c \in CombinedPart(tree) :
             c.path[2] = e.path[2] /\ c.path[3] = e.path[3]
        /\ \A p \in Orderings(files) : CombinedOf(p) = CombinedPart(tree)

\* C10: staging strictly precedes building. The output directory is made
\* and an output archive opened only when every source archive is
\* extracted; a failed extraction leaves no output; a failure writing the
\* k-th per-volume archive leaves the k-1 written before it and none after.
StagingPrecedesBuilding ==
    /\ (outDirMade \/ outputs # <<>>) => (nextract = Len(files) /\ todo = <<>>)
    /\ err = "extract" => (outputs = <<>> /\ ~outDirMade)
    /\ (err = "build" /\ ~all) =>
          /\ Len(outputs) = nbuilt + 1
          /\ nbuilt < Len(extracted)
          /\ \A k \in 1..nbuilt :
                /\ outputs[k].complete
                /\ outputs[k].name = VolumeName(extracted[k].key)
                /\ outputs[k].entries = ArchiveEntries(StageAll({}, ExtractPlan(SortedItems(organized))), extracted[k].val)
          /\ ~outputs[nbuilt + 1].complete
          /\ outputs[nbuilt + 1].name = VolumeName(extracted[nbuilt + 1].key)

\* The run failed writing the second per-volume archive or a later one
FailedWritingLaterVolume ==
    pc = "failed" /\ err = "build" /\ ~all /\ nbuilt >= 1 /\ Len(extracted) > nbuilt + 1

====
